---- MODULE Spec2Model ----
(***************************************************************************)
(* Model of the RFC 1179 request tokenizer of lp-daemon                    *)
(* (lib/tokenizer.js, class RequestTokenizer).                             *)
(*                                                                         *)
(* The tokenizer is a Transform stream: octets are written to it in        *)
(* chunks (_transform), the end of the input runs _flush, and the 'end'    *)
(* event of its readable side runs the handler installed in the            *)
(* constructor.  Tokens pushed to the readable side are recorded in        *)
(* `tokens`, the PassThrough streams handed out in data tokens in          *)
(* `streams`.                                                              *)
(***************************************************************************)
EXTENDS Integers, Sequences, FiniteSets, TLC

\* ------------------------------------------------------------------------
\* Bounds of the exploration
\* ------------------------------------------------------------------------

\* number of input units a client sends (an octet is one unit, the
\* sentinel size operand written as one chunk is one unit)
MaxInput == 9

\* number of octets in one chunk handed to _transform
MaxChunkLen == 2

\* number of octets of one operand (the sentinel operand is exempt)
MaxOperandLen == 1

\* number of operands of one command
MaxOperands == 1

\* number of octets sent as data of one data stream
MaxPayload == 2

\* number of input units a client sends while the consumer of the data
\* streams is explored
FlowInput == 7

\* number of input units a client sends while the processor is explored
ProcInput == 7

\* number of octets a client sends while the commands are explored
CmdInput == 5

\* number of input units a client sends while the latches are explored
LatchInput == 6

\* number of assignments of handleSubCommands from outside the tokenizer
MaxAssign == 1

\* number of connections a server accepts
MaxConns == 2

\* number of chunks a client sends on one connection of a server
MaxSent == 2

\* number of octets a data stream buffers before its write() returns false
\* (the highWaterMark of a PassThrough, 16384 in Node, scaled down)
HighWaterMark == 1

\* ------------------------------------------------------------------------
\* Octets and values of the program
\* ------------------------------------------------------------------------

TAB == 9

LF == 10

VT == 11

FF == 12

SPACE == 32

\* value of _command while no command is being collected (null)
NoCommand == -1

\* value of _data while no data stream is attached (null)
NoData == 0

\* value of _dataBytes for a stream without a declared size (Infinity)
Infinity == -1

\* a size larger than any input of the exploration
HugeSize == 2147483647

\* the decimal digits of 125899906843000, the size that is taken as "no
\* size declared"; the number exceeds the integers of the model checker and
\* is compared digit by digit (JavaScript compares it exactly: it is below
\* 2^53)
SentinelDigits == <<49, 50, 53, 56, 57, 57, 57, 48, 54, 56, 52, 51, 48, 48, 48>>

\* octets a client sends in this exploration: NUL, the opcodes 1..3, a
\* separator, line-feed, the digits '0' '1' '2' and the octet 0xB1, which
\* is the digit '1' with its highest bit set
Octets == {0, 1, 2, 3, SPACE, LF, 48, 49, 50, 177}

\* octets a client sends as the first octet of a command
Opcodes == {1, 2, 3, LF}

\* octets a client sends in operands
OperandOctets == {3, 48, 49, 50, 177}

\* octets a client sends as data: NUL, an opcode, a separator, line-feed
PayloadOctets == {0, 3, SPACE, LF}

\* messages of the errors the tokenizer raises
ExtraData == "invalid extra data in input stream past command"

MissingSize == "missing operand providing size of data file"

InvalidSize == "invalid operand providing size of data file"

PrematureRequest == "premature end of request"

PrematureData == "premature end of data transmission"

PrematureClosed == "input stream prematurely closed"

ClientIncomplete == "EPIPE"

\* ------------------------------------------------------------------------
\* Helpers of _transform
\* ------------------------------------------------------------------------

Min(a, b) == IF a < b THEN a ELSE b

\* case 0x09, 0x0b, 0x0c, 0x20
IsSeparator(ch) == ch \in {TAB, VT, FF, SPACE}

\* Buffer#toString( "ascii" ): the highest bit of every octet is dropped
ToAscii(operand) == [i \in 1..Len(operand) |-> operand[i] % 128]

\* /^\d+$/.test( count )
IsSizeOperand(str) == Len(str) >= 1 /\ \A i \in 1..Len(str) : str[i] \in 48..57

\* a string of decimal digits without its leading zeros
RECURSIVE Canonical(_)
Canonical(str) ==
    IF Len(str) > 0 /\ str[1] = 48 THEN Canonical(Tail(str)) ELSE str

\* the value of a string of decimal digits
RECURSIVE Decimal(_)
Decimal(str) ==
    IF Len(str) = 0 THEN 0
    ELSE 10 * Decimal(SubSeq(str, 1, Len(str) - 1)) + (str[Len(str)] - 48)

\* parseInt( count ) of a string of decimal digits; a size of more than 9
\* digits exceeds the integers of the model checker and is no size a client
\* of this exploration declares (WithinBounds): it is taken as HugeSize
ParseInt(str) ==
    IF Len(Canonical(str)) <= 9 THEN Decimal(Canonical(str)) ELSE HugeSize

\* count !== 125899906843000
IsSentinel(str) == Canonical(str) = SentinelDigits

\* DataBytesFor without the special case of the sentinel
DataBytesFor_NoSentinel(str) ==
    IF ParseInt(str) > 0 THEN ParseInt(str) ELSE Infinity

\* count > 0 && count !== 125899906843000 ? count : Infinity
DataBytesFor(str) ==
    IF IsSentinel(str) THEN Infinity
    ELSE IF ParseInt(str) > 0 THEN ParseInt(str) ELSE Infinity

\* this._dataBytes < Infinity
IsFinite(n) == n # Infinity

\* DataChunkSize forwarding the rest of the chunk whatever the declared size
DataChunkSize_Unclamped(rest, dataBytes) == rest

\* Math.min( numBytes - read, this._dataBytes )
DataChunkSize(rest, dataBytes) == IF IsFinite(dataBytes) THEN Min(rest, dataBytes) ELSE rest

\* the setter of handleSubCommands setting the flag whatever `finished`
SetHandleSubCommands_Always(fin, cur) == TRUE

\* setter of handleSubCommands: the flag is set unless `finished` is set
SetHandleSubCommands(fin, cur) == IF ~fin THEN TRUE ELSE cur

\* FinishAfterData setting the latch whatever the mode
FinishAfterData_Always(sub, fin) == TRUE

\* if ( !this.handleSubCommands ) this.metEndOfCommand = true
FinishAfterData(sub, fin) == IF ~sub THEN TRUE ELSE fin

\* ExtraInChunk taking the end of the chunk for extra data
ExtraInChunk_OffByOne(read, numBytes) == read <= numBytes

\* if ( read < numBytes ) after a completed single command
ExtraInChunk(read, numBytes) == read < numBytes

\* RejectsInput accepting input after the end of the command
RejectsInput_Never(fin) == FALSE

\* if ( this.metEndOfCommand ) at the head of the loop
RejectsInput(fin) == fin

\* new PassThrough(); size, start and confirmAt are history: the size
\* operand as decoded, the number of octets consumed when the stream was
\* created and the position of the octet consumed as confirmation (0: none)
NewStream(size, start) ==
    [bytes |-> <<>>, expectConfirmation |-> FALSE, events |-> <<>>,
     size |-> size, start |-> start, confirmAt |-> 0]

\* tokens pushed to the readable side; `at` is history: the number of
\* octets consumed when the token was pushed
CommandToken(type, command, operands, at) ==
    [type |-> type, command |-> command, operands |-> operands, stream |-> NoData, at |-> at]

DataToken(stream, at) ==
    [type |-> "data", command |-> NoCommand, operands |-> <<>>, stream |-> stream, at |-> at]

EofToken(at) ==
    [type |-> "eof", command |-> NoCommand, operands |-> <<>>, stream |-> NoData, at |-> at]

\* Confirm ending the stream without an error whatever the mark
Confirm_Silent(t, ch, base) ==
    LET s == t.streams[t.data]
    IN [t EXCEPT !.read = @ + 1,
                 !.streams[t.data] = [s EXCEPT !.events = Append(s.events, "end"),
                                               !.confirmAt = base + t.read + 1],
                 !.data = NoData,
                 !.finished = FinishAfterData(t.processSubCommands, t.finished)]

\* Confirm failing the request on a mark other than zero
Confirm_Fatal(t, ch, base) ==
    LET s == t.streams[t.data]
        ev == IF ch # 0 THEN Append(s.events, ClientIncomplete) ELSE s.events
    IN [t EXCEPT !.read = @ + 1,
                 !.streams[t.data] = [s EXCEPT !.events = Append(ev, "end"),
                                               !.confirmAt = base + t.read + 1],
                 !.data = NoData,
                 !.cb = IF ch # 0 THEN ClientIncomplete ELSE @,
                 !.finished = FinishAfterData(t.processSubCommands, t.finished)]

\* the completion mark after the data: chunk[read++] === 0
Confirm(t, ch, base) ==
    LET s == t.streams[t.data]
        ev == IF ch # 0 THEN Append(s.events, ClientIncomplete) ELSE s.events
    IN [t EXCEPT !.read = @ + 1,
                 !.streams[t.data] = [s EXCEPT !.events = Append(ev, "end"),
                                               !.confirmAt = base + t.read + 1],
                 !.data = NoData,
                 !.finished = FinishAfterData(t.processSubCommands, t.finished)]

\* forwarding data to the pass-through stream
Forward(t, chunk) ==
    LET chunkSize == DataChunkSize(Len(chunk) - t.read, t.dataBytes)
        left == IF IsFinite(t.dataBytes) THEN t.dataBytes - chunkSize ELSE t.dataBytes
        s == t.streams[t.data]
    IN [t EXCEPT !.streams[t.data] =
                     [s EXCEPT !.bytes = @ \o SubSeq(chunk, t.read + 1, t.read + chunkSize),
                               !.expectConfirmation = IF left = 0 THEN TRUE ELSE @],
                 !.dataBytes = left,
                 !.read = @ + chunkSize]

\* CloseOperand closing an operand that has no octet as well
CloseOperand_KeepsEmpty(t) ==
    [t EXCEPT !.read = @ + 1,
              !.operands = Append(@, t.partial),
              !.partial = <<>>]

\* a separator: the end of the previous operand
CloseOperand(t) ==
    [t EXCEPT !.read = @ + 1,
              !.operands = IF Len(t.partial) > 0 THEN Append(@, t.partial) ELSE @,
              !.partial = <<>>]

\* StartData testing the size operand before the subcommand is pushed
StartData_ChecksBeforePush(t, operands, at) ==
    IF Len(operands) < 1
    THEN [t EXCEPT !.cb = MissingSize, !.tokens = SubSeq(@, 1, Len(@) - 1)]
    ELSE IF ~IsSizeOperand(ToAscii(operands[1]))
    THEN [t EXCEPT !.cb = InvalidSize, !.tokens = SubSeq(@, 1, Len(@) - 1)]
    ELSE LET count == ToAscii(operands[1])
             idx == Len(t.streams) + 1
         IN [t EXCEPT !.streams = Append(@, NewStream(count, at)),
                      !.data = idx,
                      !.dataBytes = DataBytesFor(count),
                      !.tokens = Append(@, DataToken(idx, at))]

\* what follows the push of a subcommand 0x02 or 0x03
StartData(t, operands, at) ==
    IF Len(operands) < 1 THEN [t EXCEPT !.cb = MissingSize]
    ELSE IF ~IsSizeOperand(ToAscii(operands[1])) THEN [t EXCEPT !.cb = InvalidSize]
    ELSE LET count == ToAscii(operands[1])
             idx == Len(t.streams) + 1
         IN [t EXCEPT !.streams = Append(@, NewStream(count, at)),
                      !.data = idx,
                      !.dataBytes = DataBytesFor(count),
                      !.tokens = Append(@, DataToken(idx, at))]

\* HasData knowing the control file only
HasData_ControlOnly(command) == command = 2

\* subcommands followed by data
HasData(command) == command \in {2, 3}

\* a line-feed: end of command
EndOfCommand(t, numBytes, base) ==
    LET type == IF t.processSubCommands THEN "subcommand" ELSE "command"
        command == t.command
        operands == IF Len(t.partial) > 0 THEN Append(t.operands, t.partial) ELSE t.operands
        at == base + t.read + 1
        t1 == [t EXCEPT !.read = @ + 1,
                        !.command = NoCommand,
                        !.operands = <<>>,
                        !.partial = <<>>,
                        !.tokens = Append(@, CommandToken(type, command, operands, at))]
    IN IF t1.processSubCommands
       THEN IF HasData(command) THEN StartData(t1, operands, at) ELSE t1
       ELSE IF command = 2
            THEN [t1 EXCEPT !.processSubCommands = SetHandleSubCommands(t1.finished, @)]
            ELSE [t1 EXCEPT !.finished = TRUE,
                            !.cb = IF ExtraInChunk(t1.read, numBytes) THEN ExtraData ELSE @]

\* one pass of the loop of _transform
Iterate(t, chunk, base) ==
    IF RejectsInput(t.finished) THEN [t EXCEPT !.cb = ExtraData]
    ELSE IF t.data # NoData
    THEN IF t.streams[t.data].expectConfirmation
         THEN Confirm(t, chunk[t.read + 1], base)
         ELSE Forward(t, chunk)
    ELSE IF t.command = NoCommand
    THEN [t EXCEPT !.command = chunk[t.read + 1], !.read = @ + 1]
    ELSE LET ch == chunk[t.read + 1]
         IN IF IsSeparator(ch) THEN CloseOperand(t)
            ELSE IF ch = LF THEN EndOfCommand(t, Len(chunk), base)
            ELSE [t EXCEPT !.partial = Append(@, ch), !.read = @ + 1]

\* while ( read < numBytes ), left by callback( error )
RECURSIVE Loop(_, _, _)
Loop(t, chunk, base) ==
    IF t.cb # "ok" \/ ~(t.read < Len(chunk)) THEN t
    ELSE Loop(Iterate(t, chunk, base), chunk, base)

\* the 'error' handler of the tokenizer forwards the error to the stream
\* it is feeding
ForwardError(strs, data, error) ==
    IF data # NoData
    THEN [strs EXCEPT ![data].events = Append(@, error)]
    ELSE strs

\* FlushInCommand looking at the operand being read only
FlushInCommand_PartialOnly(partial, command, operands) == Len(partial) > 0

\* the condition of _flush for a premature end of the request
FlushInCommand(partial, command, operands) ==
    Len(partial) > 0 \/ command # NoCommand \/ Len(operands) > 0

\* FlushInData never finding data outstanding
FlushInData_Never(strs, data, dataBytes) == FALSE

\* the condition of _flush for a premature end of data
FlushInData(strs, data, dataBytes) ==
    data # NoData /\ IsFinite(dataBytes) /\ ~strs[data].expectConfirmation

\* the condition of the 'end' handler, evaluated after _data was set null
EndIsPremature(strs, data, dataBytes) ==
    (dataBytes > 0 /\ IsFinite(dataBytes))
        \/ (data # NoData /\ strs[data].expectConfirmation)

\* ------------------------------------------------------------------------
\* State
\* ------------------------------------------------------------------------

VARIABLES
    _command,            \* opcode of the command being collected
    _operands,           \* operands collected for it
    _partial,            \* octets of the operand being collected
    _dataBytes,          \* octets still expected for the data stream
    _data,               \* index in `streams` of the stream being fed
    finished,            \* latch read as metEndOfCommand
    processSubCommands,  \* latch read as handleSubCommands
    tokens,              \* tokens pushed to the readable side
    streams,             \* the pass-through streams created so far
    error,               \* the error the tokenizer has emitted
    flushed,             \* the writable side has ended, _flush has run
    endEmitted,          \* the 'end' handler has run
    input,               \* history: all octets written to the tokenizer
    nread,               \* history: octets consumed by _transform
    units,               \* history: input units written
    assigned             \* history: metEndOfCommand at each assignment of
                         \* handleSubCommands from outside the tokenizer

\* the consumer of the data streams
VARIABLES
    taken                \* octets read from each data stream by its consumer

\* the processor the tokenizer is piped into, its backend and the socket
VARIABLES
    backend,             \* the kind of backend the processor is bound to
    ptr,                 \* index in `tokens` of the next token to process
    phase,               \* what the processor is waiting for
    pending,             \* opcode of the subcommand waiting for its data
    queue,               \* name of the queue of the request
    jobInfo,             \* job information collected from control files
    calls,               \* the backend calls issued so far
    acks,                \* the response units written to the socket
    socket               \* state of the socket of the client

\* the server and the connections it has accepted
VARIABLES
    options,             \* options given to the exported function
    server,              \* state of the server
    nextRequestId,       \* the counter of request identifiers
    conns                \* the connections accepted so far

tokenizerVars == <<_command, _operands, _partial, _dataBytes, _data, finished,
                   processSubCommands, tokens, streams, error, flushed, endEmitted,
                   input, nread, units, assigned>>

flowVars == <<taken>>

processorVars == <<backend, ptr, phase, pending, queue, jobInfo, calls, acks, socket>>

serverVars == <<options, server, nextRequestId, conns>>

vars == <<tokenizerVars, flowVars, processorVars, serverVars>>

\* no backend bound, no options given
NoBackend == "none"

NoOptions == [backend |-> NoBackend, requireValidRemotePort |-> FALSE]

\* nothing has been read from the data streams
FlowInit == taken = <<>>

\* new RequestProcessor( options.backend ) on a socket just accepted
ProcessorInit(b) ==
    /\ backend = b
    /\ ptr = 1
    /\ phase = "idle"
    /\ pending = NoCommand
    /\ queue = <<>>
    /\ jobInfo = <<>>
    /\ calls = <<>>
    /\ acks = <<>>
    /\ socket = "open"

\* let nextRequestId = 1; the exported function has not been called
ServerInit(o) ==
    /\ options = o
    /\ server = "none"
    /\ nextRequestId = 1
    /\ conns = <<>>

\* constructor
Init ==
    /\ _command = NoCommand
    /\ _operands = <<>>
    /\ _partial = <<>>
    /\ _dataBytes = 0
    /\ _data = NoData
    /\ finished = FALSE
    /\ processSubCommands = FALSE
    /\ tokens = <<>>
    /\ streams = <<>>
    /\ error = "none"
    /\ flushed = FALSE
    /\ endEmitted = FALSE
    /\ input = <<>>
    /\ nread = 0
    /\ units = 0
    /\ assigned = <<>>
    /\ FlowInit
    /\ ProcessorInit(NoBackend)
    /\ ServerInit(NoOptions)

\* chunks a client writes
Chunks ==
    UNION {[1..n -> Octets] : n \in 1..MaxChunkLen} \cup {SentinelDigits}

Cost(chunk) == IF chunk = SentinelDigits THEN 1 ELSE Len(chunk)

OperandWithinBounds(operand) ==
    \/ Len(operand) <= MaxOperandLen /\ \A i \in 1..Len(operand) : operand[i] \in OperandOctets
    \/ operand = SentinelDigits

\* the commands sent stay within the bounds of the exploration
WithinBounds(t) ==
    /\ t.command \in Opcodes \cup {NoCommand}
    /\ OperandWithinBounds(t.partial)
    /\ Len(t.operands) + (IF Len(t.partial) > 0 THEN 1 ELSE 0) <= MaxOperands
    /\ \A i \in 1..Len(t.operands) : OperandWithinBounds(t.operands[i])
    /\ \A i \in 1..Len(t.streams) :
          /\ Len(t.streams[i].bytes) <= MaxPayload
          /\ \A j \in 1..Len(t.streams[i].bytes) : t.streams[i].bytes[j] \in PayloadOctets
    /\ \A i \in 1..Len(t.tokens) :
          /\ t.tokens[i].command \in Opcodes \cup {NoCommand}
          /\ Len(t.tokens[i].operands) <= MaxOperands
          /\ \A j \in 1..Len(t.tokens[i].operands) :
                OperandWithinBounds(t.tokens[i].operands[j])

\* Tokenized keeping the octets of an operand in a variable of the call
Tokenized_ForgetsPartial(chunk) ==
    Loop([command |-> _command, operands |-> _operands, partial |-> <<>>,
          dataBytes |-> _dataBytes, data |-> _data, finished |-> finished,
          processSubCommands |-> processSubCommands, tokens |-> tokens,
          streams |-> streams, read |-> 0, cb |-> "ok"], chunk, nread)

\* the loop of _transform over a chunk, from the fields of the tokenizer
Tokenized(chunk) ==
    Loop([command |-> _command, operands |-> _operands, partial |-> _partial,
          dataBytes |-> _dataBytes, data |-> _data, finished |-> finished,
          processSubCommands |-> processSubCommands, tokens |-> tokens,
          streams |-> streams, read |-> 0, cb |-> "ok"], chunk, nread)

\* what _transform leaves in the fields of the tokenizer
Assign(t, chunk) ==
    /\ _command' = t.command
    /\ _operands' = t.operands
    /\ _partial' = t.partial
    /\ _dataBytes' = t.dataBytes
    /\ _data' = t.data
    /\ finished' = t.finished
    /\ processSubCommands' = t.processSubCommands
    /\ tokens' = t.tokens
    /\ streams' = IF t.cb = "ok" THEN t.streams
                  ELSE ForwardError(t.streams, t.data, t.cb)
    /\ error' = IF t.cb = "ok" THEN error ELSE t.cb
    /\ nread' = nread + t.read
    /\ input' = input \o chunk
    /\ UNCHANGED <<flushed, endEmitted, assigned>>

\* _transform( chunk, encoding, callback ); an error given to the callback
\* makes the tokenizer emit 'error', on which the socket piped into it
\* (server.js: client.pipe( tokenizer )) is unpiped: no chunk and no end of
\* input reaches the tokenizer afterwards
Deliver(chunk) ==
    /\ error = "none"
    /\ ~flushed
    /\ LET t == Tokenized(chunk)
       IN Assign(t, chunk)
    /\ UNCHANGED <<flowVars, processorVars, serverVars>>

\* _transform for a chunk of a client that stays within the bounds of the
\* exploration
Transform(chunk) ==
    /\ error = "none"
    /\ ~flushed
    /\ units + Cost(chunk) <= MaxInput
    /\ LET t == Tokenized(chunk)
       IN /\ WithinBounds(t)
          /\ Assign(t, chunk)
    /\ units' = units + Cost(chunk)
    /\ UNCHANGED <<flowVars, processorVars, serverVars>>

\* _flush( callback ): the input has ended
Flush ==
    /\ error = "none"
    /\ ~flushed
    /\ flushed' = TRUE
    /\ IF FlushInCommand(_partial, _command, _operands)
       THEN /\ error' = PrematureRequest
            /\ streams' = ForwardError(streams, _data, PrematureRequest)
            /\ UNCHANGED tokens
       ELSE IF FlushInData(streams, _data, _dataBytes)
       THEN /\ error' = PrematureData
            /\ streams' = ForwardError(streams, _data, PrematureData)
            /\ UNCHANGED tokens
       ELSE /\ tokens' = Append(tokens, EofToken(nread))
            /\ UNCHANGED <<error, streams>>
    /\ UNCHANGED <<_command, _operands, _partial, _dataBytes, _data, finished,
                   processSubCommands, endEmitted, input, nread, units, assigned>>
    /\ UNCHANGED <<flowVars, processorVars, serverVars>>

\* this.on( "end", ... ): the readable side has been read to its end
End ==
    /\ flushed
    /\ error = "none"
    /\ ~endEmitted
    /\ endEmitted' = TRUE
    /\ IF _data # NoData
       THEN /\ streams' = [streams EXCEPT ![_data].events = Append(@, "end")]
            /\ _data' = NoData
            /\ error' = IF EndIsPremature(streams', _data', _dataBytes)
                        THEN PrematureClosed ELSE error
       ELSE UNCHANGED <<streams, _data, error>>
    /\ UNCHANGED <<_command, _operands, _partial, _dataBytes, finished,
                   processSubCommands, tokens, flushed, input, nread, units,
                   assigned>>
    /\ UNCHANGED <<flowVars, processorVars, serverVars>>

Next ==
    \/ \E chunk \in Chunks : Transform(chunk)
    \/ Flush
    \/ End

Spec == Init /\ [][Next]_vars

\* ------------------------------------------------------------------------
\* The tokenizer and the consumer of its data streams
\* ------------------------------------------------------------------------

\* octets the consumer has read from stream i
TakenOf(i) == IF i <= Len(taken) THEN taken[i] ELSE 0

\* octets written to stream i and not yet read by its consumer
Buffered(i) == Len(streams[i].bytes) - TakenOf(i)

\* the consumer of stream i (dataStream.resume(), dataStream.pipe( request ))
\* reads one more octet of it
Take(i) ==
    /\ Buffered(i) > 0
    /\ taken' = [k \in 1..Len(streams) |-> IF k = i THEN TakenOf(k) + 1 ELSE TakenOf(k)]
    /\ UNCHANGED <<tokenizerVars, processorVars, serverVars>>

\* _transform while the consumer is explored
FlowTransform(chunk) == units + Cost(chunk) <= FlowInput /\ Transform(chunk)

FlowNext ==
    \/ \E chunk \in Chunks : FlowTransform(chunk)
    \/ Flush
    \/ End
    \/ \E i \in 1..Len(streams) : Take(i)

SpecFlow == Init /\ [][FlowNext]_vars

\* ------------------------------------------------------------------------
\* The server and its connections
\* ------------------------------------------------------------------------

\* the remote ports RFC 1179 asks for
MinPort == 721

MaxPort == 731

\* client.end( "invalid client port\n" )
RejectMessage == "invalid client port\n"

\* the backends of the package: NullBackend, IppBackend and the
\* AbstractBackend they extend
Backends == {"null", "ipp", "abstract"}

\* what options.backend may be: absent, an object that is no backend, or
\* a backend
BackendOptions == {NoBackend, "object"} \cup Backends

\* remote ports of the connections explored
Ports == {720, 721, 725, 731, 732}

\* IsAbstractBackend testing for the presence of a backend only
IsAbstractBackend_Present(b) == b # NoBackend

\* options.backend instanceof AbstractBackend
IsAbstractBackend(b) == b \in Backends

\* PortRejected taking the ends of the range for invalid
PortRejected_OffByOne(require, port) ==
    require /\ (port <= MinPort \/ port >= MaxPort)

\* options.requireValidRemotePort && ( client.remotePort < 721 ||
\* client.remotePort > 731 )
PortRejected(require, port) ==
    require /\ (port < MinPort \/ port > MaxPort)

\* NextId handing out the same identifier again
NextId_Same(id) == id

\* nextRequestId++: the identifier the next connection gets
NextId(id) == id + 1

\* a connection turned away: client.resume(); client.end( message )
RejectedConn(id, port) ==
    [requestId |-> id, port |-> port, tokenizer |-> FALSE, processor |-> FALSE,
     piped |-> FALSE, reply |-> RejectMessage, ended |-> TRUE,
     sent |-> 0, delivered |-> 0, calls |-> 0]

\* a connection wired: new RequestTokenizer, new RequestProcessor and the
\* three pipes
WiredConn(id, port) ==
    [requestId |-> id, port |-> port, tokenizer |-> TRUE, processor |-> TRUE,
     piped |-> TRUE, reply |-> "", ended |-> FALSE,
     sent |-> 0, delivered |-> 0, calls |-> 0]

\* module.exports = function( options ): a TypeError is thrown unless
\* options.backend is a backend, else the server is created and asked to
\* listen
CreateServer ==
    /\ server = "none"
    /\ server' = IF IsAbstractBackend(options.backend) THEN "created" ELSE "failed"
    /\ UNCHANGED <<options, nextRequestId, conns>>
    /\ UNCHANGED <<tokenizerVars, flowVars, processorVars>>

\* server.listen( 515, ... ) succeeds and the promise resolves, or the
\* server emits 'error' and the promise is rejected
Listen(ok) ==
    /\ server = "created"
    /\ server' = IF ok THEN "listening" ELSE "rejected"
    /\ UNCHANGED <<options, nextRequestId, conns>>
    /\ UNCHANGED <<tokenizerVars, flowVars, processorVars>>

\* Net.createServer( client => ... ): a client connects from a port
Accept(port) ==
    /\ server = "listening"
    /\ Len(conns) < MaxConns
    /\ nextRequestId' = NextId(nextRequestId)
    /\ conns' = Append(conns,
                       IF PortRejected(options.requireValidRemotePort, port)
                       THEN RejectedConn(nextRequestId, port)
                       ELSE WiredConn(nextRequestId, port))
    /\ UNCHANGED <<options, server>>
    /\ UNCHANGED <<tokenizerVars, flowVars, processorVars>>

\* the client of connection c sends a chunk: it reaches the tokenizer if
\* the socket is piped into one and is dropped otherwise (client.resume())
ClientSends(c) ==
    /\ conns[c].sent < MaxSent
    /\ conns' = [conns EXCEPT ![c].sent = @ + 1,
                              ![c].delivered = IF conns[c].piped THEN @ + 1 ELSE @]
    /\ UNCHANGED <<options, server, nextRequestId>>
    /\ UNCHANGED <<tokenizerVars, flowVars, processorVars>>

\* the processor of connection c calls the backend for a command the
\* tokenizer made of the chunks delivered to it
Serve(c) ==
    /\ conns[c].processor
    /\ conns[c].calls < conns[c].delivered
    /\ conns' = [conns EXCEPT ![c].calls = @ + 1]
    /\ UNCHANGED <<options, server, nextRequestId>>
    /\ UNCHANGED <<tokenizerVars, flowVars, processorVars>>

\* the options a server is created with
ServerOptions ==
    [backend : BackendOptions, requireValidRemotePort : BOOLEAN]

InitServer ==
    /\ _command = NoCommand
    /\ _operands = <<>>
    /\ _partial = <<>>
    /\ _dataBytes = 0
    /\ _data = NoData
    /\ finished = FALSE
    /\ processSubCommands = FALSE
    /\ tokens = <<>>
    /\ streams = <<>>
    /\ error = "none"
    /\ flushed = FALSE
    /\ endEmitted = FALSE
    /\ input = <<>>
    /\ nread = 0
    /\ units = 0
    /\ assigned = <<>>
    /\ FlowInit
    /\ ProcessorInit(NoBackend)
    /\ \E o \in ServerOptions : ServerInit(o)

NextServer ==
    \/ CreateServer
    \/ \E ok \in BOOLEAN : Listen(ok)
    \/ \E port \in Ports : Accept(port)
    \/ \E c \in 1..Len(conns) : ClientSends(c)
    \/ \E c \in 1..Len(conns) : Serve(c)

SpecServer == InitServer /\ [][NextServer]_vars

\* ------------------------------------------------------------------------
\* The processor, its backend and the socket of one connection
\* ------------------------------------------------------------------------

\* the event "end" has been emitted on a data stream
StreamEnded(s) == \E e \in 1..Len(s.events) : s.events[e] = "end"

\* an error has been emitted on a data stream
StreamFailed(s) == \E e \in 1..Len(s.events) : s.events[e] # "end"

\* NullBackend.printJob resumes the stream and returns a resolved
\* promise at once, whatever happens to the stream afterwards
NullPrintJob(s, ok) == ok

\* IppBackend.printJob pipes the stream into a request to the service: it
\* is rejected on an error of the request or a negative answer, it
\* resolves on an answer, and the service answers a request that has
\* ended, which it does with the stream
IppPrintJob(s, ok) == ok => StreamEnded(s)

\* AbstractBackend.printJob returns a rejected promise
AbstractPrintJob(s, ok) == ~ok

\* removeJob, report and releaseJobs of NullBackend resolve
NullOperation(ok) == ok

\* removeJob, report and releaseJobs of IppBackend are rejected
IppOperation(ok) == ~ok

\* removeJob, report and releaseJobs of AbstractBackend are rejected
AbstractOperation(ok) == ~ok

\* the promise of printJob of backend b may settle as ok
PrintJobSettles(b, s, ok) ==
    CASE b = "null" -> NullPrintJob(s, ok)
      [] b = "ipp" -> IppPrintJob(s, ok)
      [] b = "abstract" -> AbstractPrintJob(s, ok)

\* the promise of another operation of backend b may settle as ok
OperationSettles(b, ok) ==
    CASE b = "null" -> NullOperation(ok)
      [] b = "ipp" -> IppOperation(ok)
      [] b = "abstract" -> AbstractOperation(ok)

\* a call of the backend by the processor; `token` is history: the index
\* of the token that caused it
Call(op, q, info, args, stream, token) ==
    [op |-> op, queue |-> q, info |-> info, args |-> args, stream |-> stream,
     outcome |-> "pending", token |-> token]

\* a response unit: one octet of acknowledgement or the text of a report
Ack(value, token) == [kind |-> "ack", value |-> value, token |-> token]

Report(value, token) == [kind |-> "report", value |-> value, token |-> token]

\* AckValue acknowledging whatever the outcome
AckValue_AlwaysZero(ok) == 0

\* the octet for an outcome: 0 for success, non-zero for failure
AckValue(ok) == IF ok THEN 0 ELSE 1

\* the response to a settled call
Response(op, ok, token) ==
    IF op = "report" THEN Report(AckValue(ok), token) ELSE Ack(AckValue(ok), token)

\* the backend operation of a top-level command
OperationOf(command) ==
    IF command = 1 THEN "releaseJobs"
    ELSE IF command \in {3, 4} THEN "report"
    ELSE IF command = 5 THEN "removeJob"
    ELSE "none"

\* the lines of a control file: the octets between line-feeds
RECURSIVE Lines(_, _)
Lines(bytes, line) ==
    IF bytes = <<>> THEN (IF line = <<>> THEN <<>> ELSE <<line>>)
    ELSE IF Head(bytes) = LF
         THEN (IF line = <<>> THEN <<>> ELSE <<line>>) \o Lines(Tail(bytes), <<>>)
         ELSE Lines(Tail(bytes), Append(line, Head(bytes)))

\* the directives of a control file: the first octet of a line is its
\* tag, the rest its value
DecodeControl(bytes) ==
    LET ls == Lines(bytes, <<>>)
    IN [i \in 1..Len(ls) |-> [tag |-> Head(ls[i]), value |-> Tail(ls[i])]]

\* merging the directives of a control file into the job information
Merge(info, directives) == info \o directives

\* CanRead taking the next token whatever the processor waits for
CanRead_Always(ph) == ph # "finished"

\* the processor takes the next token only when nothing is outstanding
CanRead(ph) == ph = "idle"

\* the processor takes the next token
ProcRead ==
    /\ CanRead(phase)
    /\ ptr <= Len(tokens)
    /\ LET tok == tokens[ptr]
           q == IF tok.operands = <<>> THEN <<>> ELSE tok.operands[1]
           args == IF tok.operands = <<>> THEN <<>> ELSE Tail(tok.operands)
       IN CASE tok.type = "command" /\ OperationOf(tok.command) # "none" ->
                  /\ calls' = Append(calls, Call(OperationOf(tok.command), q, <<>>,
                                                 <<tok.command>> \o args, NoData, ptr))
                  /\ phase' = "backend"
                  /\ queue' = q
                  /\ UNCHANGED <<pending, jobInfo, acks>>
            [] tok.type = "command" /\ tok.command = 2 ->
                  /\ acks' = Append(acks, Ack(0, ptr))
                  /\ queue' = q
                  /\ UNCHANGED <<phase, pending, jobInfo, calls>>
            [] tok.type = "command" /\ OperationOf(tok.command) = "none" /\ tok.command # 2 ->
                  /\ acks' = Append(acks, Ack(1, ptr))
                  /\ UNCHANGED <<phase, pending, queue, jobInfo, calls>>
            [] tok.type = "subcommand" /\ tok.command = 1 ->
                  /\ jobInfo' = <<>>
                  /\ acks' = Append(acks, Ack(0, ptr))
                  /\ UNCHANGED <<phase, pending, queue, calls>>
            [] tok.type = "subcommand" /\ HasData(tok.command) ->
                  /\ pending' = tok.command
                  /\ UNCHANGED <<phase, queue, jobInfo, calls, acks>>
            [] tok.type = "subcommand" /\ tok.command # 1 /\ ~HasData(tok.command) ->
                  /\ acks' = Append(acks, Ack(1, ptr))
                  /\ UNCHANGED <<phase, pending, queue, jobInfo, calls>>
            [] tok.type = "data" /\ pending = 2 ->
                  /\ phase' = "reading"
                  /\ pending' = NoCommand
                  /\ UNCHANGED <<queue, jobInfo, calls, acks>>
            [] tok.type = "data" /\ pending # 2 ->
                  /\ calls' = Append(calls, Call("printJob", queue, jobInfo, <<>>,
                                                 tok.stream, ptr))
                  /\ phase' = "backend"
                  /\ pending' = NoCommand
                  /\ UNCHANGED <<queue, jobInfo, acks>>
            [] tok.type = "eof" ->
                  /\ phase' = "finished"
                  /\ UNCHANGED <<pending, queue, jobInfo, calls, acks>>
    /\ ptr' = ptr + 1
    /\ UNCHANGED <<backend, socket>>
    /\ UNCHANGED <<tokenizerVars, flowVars, serverVars>>

\* the control file has been read to its end or has failed: its
\* directives are merged and it is acknowledged
ReadControl ==
    /\ phase = "reading"
    /\ LET s == streams[tokens[ptr - 1].stream]
       IN /\ s.events # <<>>
          /\ jobInfo' = IF StreamFailed(s) THEN jobInfo
                        ELSE Merge(jobInfo, DecodeControl(s.bytes))
          /\ acks' = Append(acks, Ack(AckValue(~StreamFailed(s)), ptr - 1))
    /\ phase' = "idle"
    /\ UNCHANGED <<backend, ptr, pending, queue, calls, socket>>
    /\ UNCHANGED <<tokenizerVars, flowVars, serverVars>>

\* the promise of the outstanding backend call settles and the processor
\* writes the response
Settle(ok) ==
    /\ phase = "backend"
    /\ LET c == calls[Len(calls)]
       IN /\ IF c.op = "printJob"
             THEN PrintJobSettles(backend, streams[c.stream], ok)
             ELSE OperationSettles(backend, ok)
          /\ calls' = [calls EXCEPT ![Len(calls)].outcome =
                                        IF ok THEN "resolved" ELSE "rejected"]
          /\ acks' = Append(acks, Response(c.op, ok, c.token))
    /\ phase' = "idle"
    /\ UNCHANGED <<backend, ptr, pending, queue, jobInfo, socket>>
    /\ UNCHANGED <<tokenizerVars, flowVars, serverVars>>

\* _transform while the processor is explored
ProcTransform(chunk) == units + Cost(chunk) <= ProcInput /\ Transform(chunk)

\* the 'end' event of the tokenizer: the processor has read all its tokens
ProcEnd == ptr > Len(tokens) /\ End

\* processor.pipe( client ): the processor has ended, the socket is ended
Close ==
    /\ phase = "finished"
    /\ endEmitted
    /\ socket = "open"
    /\ socket' = "ended"
    /\ UNCHANGED <<backend, ptr, phase, pending, queue, jobInfo, calls, acks>>
    /\ UNCHANGED <<tokenizerVars, flowVars, serverVars>>

\* Net.createServer without allowHalfOpen: once the end of the input has
\* been read from the socket, the socket ends its writable side
AutoEnd ==
    /\ flushed
    /\ socket = "open"
    /\ socket' = "ended"
    /\ UNCHANGED <<backend, ptr, phase, pending, queue, jobInfo, calls, acks>>
    /\ UNCHANGED <<tokenizerVars, flowVars, serverVars>>

\* state of the tokenizer after its constructor
TokenizerInit ==
    /\ _command = NoCommand
    /\ _operands = <<>>
    /\ _partial = <<>>
    /\ _dataBytes = 0
    /\ _data = NoData
    /\ finished = FALSE
    /\ processSubCommands = FALSE
    /\ tokens = <<>>
    /\ streams = <<>>
    /\ error = "none"
    /\ flushed = FALSE
    /\ endEmitted = FALSE
    /\ input = <<>>
    /\ nread = 0
    /\ units = 0
    /\ assigned = <<>>

\* state of a connection before its first octet
InitProc ==
    /\ TokenizerInit
    /\ FlowInit
    /\ \E b \in Backends : ProcessorInit(b)
    /\ ServerInit(NoOptions)

\* what the server side of a connection does
ServerStep ==
    \/ ProcRead
    \/ ReadControl
    \/ \E ok \in BOOLEAN : Settle(ok)
    \/ ProcEnd
    \/ Close
    \/ AutoEnd

NextProc ==
    \/ \E chunk \in Chunks : ProcTransform(chunk)
    \/ Flush
    \/ ServerStep

SpecProc == InitProc /\ [][NextProc]_vars

\* ------------------------------------------------------------------------
\* The latches and their setters
\* ------------------------------------------------------------------------

\* tokenizer.handleSubCommands = value, by any holder of the tokenizer
AssignHandleSubCommands ==
    /\ Len(assigned) < MaxAssign
    /\ processSubCommands' = SetHandleSubCommands(finished, processSubCommands)
    /\ assigned' = Append(assigned, finished)
    /\ UNCHANGED <<_command, _operands, _partial, _dataBytes, _data, finished,
                   tokens, streams, error, flushed, endEmitted, input, nread, units>>
    /\ UNCHANGED <<flowVars, processorVars, serverVars>>

\* _transform while the latches are explored
LatchTransform(chunk) == units + Cost(chunk) <= LatchInput /\ Transform(chunk)

NextLatches ==
    \/ \E chunk \in Chunks : LatchTransform(chunk)
    \/ Flush
    \/ End
    \/ AssignHandleSubCommands

SpecLatches == Init /\ [][NextLatches]_vars

\* ------------------------------------------------------------------------
\* Commands of any octets
\* ------------------------------------------------------------------------

\* the octets of the commands explored: opcodes, all separators, the
\* line-feed and a digit
CmdOctets == {0, 2, TAB, VT, FF, SPACE, LF, 49}

CmdChunks == UNION {[1..n -> CmdOctets] : n \in 1..MaxChunkLen}

\* _transform for a chunk of these octets
CmdTransform(chunk) ==
    /\ Len(input) + Len(chunk) <= CmdInput
    /\ Deliver(chunk)
    /\ UNCHANGED units

NextCommands ==
    \/ \E chunk \in CmdChunks : CmdTransform(chunk)
    \/ Flush
    \/ End

SpecCommands == Init /\ [][NextCommands]_vars

\* ------------------------------------------------------------------------
\* The session of a client that submits one job to the queue "lp"
\* ------------------------------------------------------------------------

\* "lp"
QueueName == <<108, 112>>

\* the control file: "Hhost", "Pme", "fdfA001host", "UdfA001host", "Nab",
\* each followed by a line-feed
ControlFile ==
    <<72, 104, 111, 115, 116, LF, 80, 109, 101, LF,
      102, 100, 102, 65, 48, 48, 49, 104, 111, 115, 116, LF,
      85, 100, 102, 65, 48, 48, 49, 104, 111, 115, 116, LF,
      78, 97, 98, LF>>

\* the data file: octets that include 0, the opcodes and the line-feed
Payload == [i \in 1..100 |-> i % 11]

\* 02 "lp" LF, 02 "38" LF, the control file, 00, 03 "100" LF, the data
\* file, 00
Script ==
    <<2>> \o QueueName \o <<LF>> \o <<2, 51, 56, LF>> \o ControlFile \o <<0>>
        \o <<3, 49, 48, 48, LF>> \o Payload \o <<0>>

\* the sizes of the chunks the script arrives in
ScriptChunks == {1, 50, Len(Script)}

\* the next octets of the script arrive
ScriptSend ==
    /\ Len(input) < Len(Script)
    /\ \E n \in ScriptChunks :
          Deliver(SubSeq(Script, Len(input) + 1, Min(Len(input) + n, Len(Script))))
    /\ UNCHANGED units

\* the client closes its side after the script
ScriptEnd == input = Script /\ Flush

NextScript ==
    \/ ScriptSend
    \/ ScriptEnd
    \/ ServerStep

SpecScript == InitProc /\ [][NextScript]_vars

\* ------------------------------------------------------------------------
\* Properties
\* ------------------------------------------------------------------------

StreamIds == 1..Len(streams)

TokenIds == 1..Len(tokens)

\* the size a stream was declared with, read from its size operand
ZeroSize(s) == Canonical(s.size) = <<>>

SentinelSize(s) == Canonical(s.size) = SentinelDigits

Unbounded(s) == ZeroSize(s) \/ SentinelSize(s)

Declared(s) == Decimal(Canonical(s.size))

Ended(s) == \E e \in 1..Len(s.events) : s.events[e] = "end"

\* index of the data token that handed out stream i
DataTokenOf(i) == CHOOSE k \in TokenIds : tokens[k].type = "data" /\ tokens[k].stream = i

HasEof == \E k \in TokenIds : tokens[k].type = "eof"

\* C1: a stream declared with a size L >= 1 receives exactly the L octets
\* that follow the line-feed of its command, in order and unmodified, and
\* the octet taken as confirmation is the (L+1)-th octet after the line-feed
C1_PayloadFidelity ==
    \A i \in StreamIds :
        LET s == streams[i]
            L == Declared(s)
        IN ~Unbounded(s) =>
              /\ L >= 1
              /\ input[s.start] = LF
              /\ tokens[DataTokenOf(i) - 1].at = s.start
              /\ Len(s.bytes) = Min(L, nread - s.start)
              /\ s.bytes = SubSeq(input, s.start + 1, s.start + Len(s.bytes))
              /\ (s.confirmAt # 0 => s.confirmAt = s.start + L + 1)
              /\ (nread > s.start + L => s.confirmAt = s.start + L + 1)

\* a stream of declared size 2 has received a line-feed and a separator as
\* its data and has been confirmed
C1_Witness ==
    \E i \in StreamIds :
        /\ ~Unbounded(streams[i])
        /\ Declared(streams[i]) = 2
        /\ streams[i].bytes = <<LF, SPACE>>
        /\ streams[i].confirmAt # 0

\* C2 as stated: a stream declared with size 0 or the sentinel closes only
\* on an explicit completion octet
C2_ClosesOnlyOnCompletionOctet ==
    \A i \in StreamIds :
        Unbounded(streams[i]) /\ Ended(streams[i]) => streams[i].confirmAt # 0

\* C2 amended: a stream declared with size 0 or the sentinel receives every
\* octet that follows its command, whatever its value; no octet is taken as
\* completion confirmation and no further token but the end token is
\* pushed; the stream sees no error on a clean end of input and is ended
\* only by the end of the input
C2_UnboundedUntilEndOfInput ==
    \A i \in StreamIds :
        LET s == streams[i]
        IN Unbounded(s) =>
              /\ s.confirmAt = 0
              /\ ~s.expectConfirmation
              /\ s.bytes = SubSeq(input, s.start + 1, nread)
              /\ \A k \in TokenIds : k > DataTokenOf(i) => tokens[k].type = "eof"
              /\ s.events \in {<<>>, <<"end">>}
              /\ (Ended(s) => endEmitted)
              /\ (flushed => HasEof)

\* a stream declared with the sentinel has received a NUL and another octet
\* and has been ended
C2_Witness ==
    \E i \in StreamIds :
        /\ SentinelSize(streams[i])
        /\ Len(streams[i].bytes) = 2
        /\ streams[i].bytes[1] = 0
        /\ Ended(streams[i])

\* C3: once the last octet of a sized stream has been forwarded, no token
\* at all is pushed before the confirmation octet has been consumed
C3_NoTokenBeforeConfirmation ==
    \A i \in StreamIds :
        \A k \in TokenIds :
            k > DataTokenOf(i) /\ ~Unbounded(streams[i]) =>
                /\ streams[i].confirmAt # 0
                /\ tokens[k].at >= streams[i].confirmAt

\* the single top-level commands pushed
SingleCommands == {k \in TokenIds : tokens[k].type = "command" /\ tokens[k].command # 2}

\* C4: once a top-level command other than 0x02 is complete, any further
\* octet written, in the same chunk or a later one, raises the error of
\* extra data and is not consumed
C4_ExtraDataIsError ==
    \A k \in SingleCommands :
        /\ finished
        /\ nread = tokens[k].at
        /\ (Len(input) > tokens[k].at => error = ExtraData)

\* an octet has been written after a complete single command
C4_Witness ==
    \E k \in SingleCommands : Len(input) > tokens[k].at /\ error = ExtraData

\* the input has ended in the middle of an operand or of a command
EndedInCommand == flushed /\ (Len(_partial) > 0 \/ _command # NoCommand)

\* C5 as stated: the end of the input in an operand, in a command or while
\* the data of a data token is being forwarded raises an error and pushes
\* no end token
C5_PrematureEndAlwaysError ==
    EndedInCommand \/ (flushed /\ _data # NoData /\ ~streams[_data].expectConfirmation)
        => error # "none" /\ ~HasEof

\* C5 amended: the end of the input in an operand, in a command or while
\* octets of a stream of declared size are outstanding raises an error and
\* pushes no end token
C5_PrematureEndOfSizedData ==
    \/ EndedInCommand
    \/ /\ flushed
       /\ _data # NoData
       /\ ~Unbounded(streams[_data])
       /\ Len(streams[_data].bytes) < Declared(streams[_data])
    => error \in {PrematureRequest, PrematureData} /\ ~HasEof

\* the input has ended after one of two declared octets of data
C5_Witness ==
    /\ flushed
    /\ _data # NoData
    /\ ~Unbounded(streams[_data])
    /\ Declared(streams[_data]) = 2
    /\ Len(streams[_data].bytes) = 1
    /\ error = PrematureData

\* what the tokens say about the one top-level command and the two latches
C6_TokensAndLatches ==
    /\ \A k \in TokenIds : tokens[k].type = "command" => k = 1
    /\ \A k \in TokenIds : tokens[k].type = "subcommand" =>
          k > 1 /\ tokens[1].type = "command" /\ tokens[1].command = 2
    /\ processSubCommands <=>
          (tokens # <<>> /\ tokens[1].type = "command" /\ tokens[1].command = 2)
    /\ processSubCommands => ~finished

\* C6: at most one top-level command is pushed; the top-level command 0x02
\* switches to subcommands, every later command is a subcommand, the latch
\* of "no further input" is never set then and the mode is never left
C6_OneTopLevelCommand ==
    /\ []C6_TokensAndLatches
    /\ [][processSubCommands => processSubCommands']_vars

\* two subcommands have followed the top-level command
C6_Witness ==
    /\ processSubCommands
    /\ Cardinality({k \in TokenIds : tokens[k].type = "subcommand"}) >= 2

\* a single-command session: an opcode of 1, 3, 4 or 5, a queue operand and
\* the line-feed as the last and only line-feed
WellFormedSingle(in) ==
    /\ Len(in) >= 3
    /\ in[1] \in {1, 3, 4, 5}
    /\ in[Len(in)] = LF
    /\ \A p \in 2..(Len(in) - 1) : in[p] # LF
    /\ \E p \in 2..(Len(in) - 1) : ~IsSeparator(in[p])

\* C7: a well-formed single-command session yields one command token and,
\* at the end of the input, one end token and nothing else
C7_SingleCommandSession ==
    WellFormedSingle(input) =>
        /\ error = "none"
        /\ streams = <<>>
        /\ Len(tokens) = (IF flushed THEN 2 ELSE 1)
        /\ tokens[1].type = "command"
        /\ tokens[1].command = input[1]
        /\ Len(tokens[1].operands) >= 1
        /\ (flushed => tokens[2].type = "eof")

\* a single-command session has been read to its end
C7_Witness ==
    /\ WellFormedSingle(input)
    /\ flushed
    /\ Len(tokens) = 2
    /\ tokens[1].operands = <<(<<49>>)>>

\* the streams whose confirmation octet has been consumed
Confirmed == {i \in StreamIds : streams[i].confirmAt # 0}

\* C8: a non-zero confirmation octet gives the stream the error of an
\* incomplete transmission and then its end; a zero confirmation octet
\* gives it its end and no error
C8_ConfirmationOutcome ==
    \A i \in Confirmed :
        streams[i].events =
            (IF input[streams[i].confirmAt] # 0
             THEN <<ClientIncomplete, "end">>
             ELSE <<"end">>)

\* a stream has been marked incomplete and ended
C8_Witness ==
    \E i \in Confirmed :
        input[streams[i].confirmAt] # 0 /\ streams[i].events = <<ClientIncomplete, "end">>

\* the commands pushed after position c of the input
CommandsAfter(c) ==
    {k \in TokenIds : tokens[k].type \in {"command", "subcommand"} /\ tokens[k].at > c}

FirstOf(ks) == CHOOSE k \in ks : \A j \in ks : k <= j

\* C9: a non-zero confirmation octet raises no error, leaves the tokenizer
\* reading subcommands, the next octet is the opcode of a subcommand and a
\* clean end of the input still pushes the end token
C9_NonZeroConfirmationNotFatal ==
    \A i \in Confirmed :
        LET c == streams[i].confirmAt
        IN input[c] # 0 =>
              /\ processSubCommands /\ ~finished
              /\ error # ExtraData
              /\ (nread = c =>
                     /\ error = "none"
                     /\ _command = NoCommand /\ _data = NoData
                     /\ (flushed => tokens[Len(tokens)].type = "eof"))
              /\ (nread > c =>
                     IF CommandsAfter(c) = {}
                     THEN _command = input[c + 1]
                     ELSE /\ tokens[FirstOf(CommandsAfter(c))].type = "subcommand"
                          /\ tokens[FirstOf(CommandsAfter(c))].command = input[c + 1])

\* a subcommand has been pushed after a non-zero confirmation octet
C9_Witness ==
    \E i \in Confirmed :
        /\ input[streams[i].confirmAt] # 0
        /\ CommandsAfter(streams[i].confirmAt) # {}

\* the subcommands that announce data
DataCommands ==
    {k \in TokenIds : tokens[k].type = "subcommand" /\ HasData(tokens[k].command)}

\* an operand made of decimal digits only
OnlyDigits(operand) ==
    Len(operand) >= 1 /\ \A p \in 1..Len(operand) : operand[p] \in 48..57

\* C10: a subcommand 0x02 or 0x03 whose first operand is missing or is not
\* made of decimal digits raises an error and gets no data token; one whose
\* first operand is made of decimal digits raises no such error
C10_SizeOperandChecked ==
    \A k \in DataCommands :
        IF tokens[k].operands # <<>> /\ OnlyDigits(tokens[k].operands[1])
        THEN /\ error \notin {MissingSize, InvalidSize}
             /\ k < Len(tokens) /\ tokens[k + 1].type = "data"
        ELSE /\ error \in {MissingSize, InvalidSize}
             /\ k = Len(tokens)

\* the streams whose buffer has reached the high-water mark: write()
\* has returned false, the consumer is not ready to receive more
Saturated == {i \in StreamIds : Buffered(i) >= HighWaterMark}

\* C11: while the consumer of a data stream is not ready to receive more,
\* the tokenizer consumes no further input for it, so the octets accepted
\* and not yet taken stay within a fixed bound
C11_StopsWhenConsumerNotReady ==
    [][\A i \in Saturated : streams'[i].bytes = streams[i].bytes]_vars

AckIds == 1..Len(acks)

CallIds == 1..Len(calls)

\* the tokens that are answered by a response unit of their own: a
\* top-level command, a subcommand without data, the data of a subcommand
IsUnit(k) ==
    \/ tokens[k].type \in {"command", "data"}
    \/ tokens[k].type = "subcommand" /\ ~HasData(tokens[k].command)

\* the token the processor is still working on
Outstanding == IF phase \in {"backend", "reading"} THEN {ptr - 1} ELSE {}

\* C12: while a backend call is pending the processor has taken no token
\* after the one that caused the call, a pending call is the last one
\* issued, and the responses written are those of the units read so far,
\* one for each, in the order of the units
C12_ResponsesInOrderOfUnits ==
    /\ \A c \in CallIds :
          calls[c].outcome = "pending" =>
              c = Len(calls) /\ phase = "backend" /\ ptr = calls[c].token + 1
    /\ \A a, b \in AckIds : a < b => acks[a].token < acks[b].token
    /\ {acks[a].token : a \in AckIds} = {k \in 1..(ptr - 1) : IsUnit(k)} \ Outstanding

\* a job session has been acknowledged, its data file has been handed to
\* printJob, the call has settled and has been answered, and only then
\* the processor has taken the token behind it
C12_Witness ==
    /\ Len(acks) >= 2
    /\ \E c \in CallIds :
          /\ calls[c].op = "printJob"
          /\ calls[c].outcome # "pending"
          /\ acks[Len(acks)].token = calls[c].token
          /\ ptr > calls[c].token + 1

\* the responses to the data of a subcommand 03
DataFileAcks ==
    {a \in AckIds : /\ tokens[acks[a].token].type = "data"
                    /\ tokens[acks[a].token - 1].command = 3}

\* the call of printJob caused by token k
PrintJobOf(k) == {c \in CallIds : calls[c].token = k /\ calls[c].op = "printJob"}

\* C13: the response to a data file is written when the call of printJob
\* for it has settled, and it is 0 exactly if the call has resolved
C13_DataFileAckFollowsPrintJob ==
    \A a \in DataFileAcks :
        /\ acks[a].kind = "ack"
        /\ PrintJobOf(acks[a].token) # {}
        /\ \A c \in PrintJobOf(acks[a].token) :
              /\ calls[c].outcome # "pending"
              /\ acks[a].value = 0 <=> calls[c].outcome = "resolved"

\* a data file closed by the octet 0 has been answered with 0 after the
\* IPP backend has resolved, and the one before it in the session with a
\* non-zero octet or not at all
C13_Witness ==
    /\ backend = "ipp"
    /\ \E a \in DataFileAcks :
          LET s == streams[tokens[acks[a].token].stream]
          IN /\ s.confirmAt # 0
             /\ input[s.confirmAt] = 0
             /\ acks[a].value = 0

\* C14: the response to a data file that was closed by a non-zero
\* confirmation octet is non-zero, whatever the backend
C14_IncompleteDataFileRefused ==
    \A a \in DataFileAcks :
        LET s == streams[tokens[acks[a].token].stream]
        IN s.confirmAt # 0 /\ input[s.confirmAt] # 0 => acks[a].value # 0

\* C15: a call of printJob has resolved only if its data stream has been
\* received completely and closed by the confirmation octet 0
C15_OnlyCompleteJobsSucceed ==
    \A c \in CallIds :
        calls[c].op = "printJob" /\ calls[c].outcome = "resolved" =>
            LET s == streams[calls[c].stream]
            IN s.confirmAt # 0 /\ input[s.confirmAt] = 0

\* the script has been sent, all its units have been answered and the
\* call of printJob has resolved
ScriptDone ==
    /\ input = Script
    /\ ptr > 5
    /\ phase = "idle"
    /\ \E c \in CallIds : calls[c].outcome = "resolved"

\* printJob has been called once, with the queue "lp", the directives of
\* the control file and the stream of the data file
OnePrintJob ==
    /\ Len(calls) = 1
    /\ calls[1].op = "printJob"
    /\ calls[1].queue = QueueName
    /\ calls[1].info = DecodeControl(ControlFile)
    /\ calls[1].stream = 2

C17_ErrorEndsConnection ==
    error # "none" /\ ~ENABLED ServerStep => socket = "ended"

\* C18: when the input ends while a data stream is open, the stream gets an
\* error of premature termination and is not ended cleanly
C18_OpenStreamAbortedAtEnd ==
    \A i \in StreamIds :
        flushed /\ streams[i].confirmAt = 0 /\ (endEmitted \/ error # "none") =>
            /\ streams[i].events # <<>>
            /\ streams[i].events[1] \in {PrematureRequest, PrematureData, PrematureClosed}

\* C19: without a backend in the options the creation of the server fails
\* before it listens: no connection is accepted, no tokenizer and no
\* processor is created
C19_NoServerWithoutBackend ==
    options.backend \notin {"null", "ipp", "abstract"} =>
        /\ server \in {"none", "failed"}
        /\ conns = <<>>

\* the creation of a server was given an object that is no backend and has
\* failed
C19_Witness == options.backend = "object" /\ server = "failed"

\* the port of a connection lies outside 721..731
OutOfRange(port) == port \notin 721..731

\* C20: with the port policy enabled a connection from a port outside
\* 721..731 gets the rejection message and is closed, no tokenizer and no
\* processor is attached and none of its octets causes a backend call; any
\* other connection is wired to a tokenizer and a processor
C20_PortPolicy ==
    \A c \in 1..Len(conns) :
        IF options.requireValidRemotePort /\ OutOfRange(conns[c].port)
        THEN /\ conns[c].reply = "invalid client port\n"
             /\ conns[c].ended
             /\ ~conns[c].tokenizer /\ ~conns[c].processor /\ ~conns[c].piped
             /\ conns[c].delivered = 0 /\ conns[c].calls = 0
        ELSE /\ conns[c].tokenizer /\ conns[c].processor /\ conns[c].piped
             /\ conns[c].reply = ""

\* a connection from port 732 has been rejected and has sent octets, one
\* from port 731 has been wired and has caused a backend call
C20_Witness ==
    /\ options.requireValidRemotePort
    /\ \E c \in 1..Len(conns) :
          conns[c].port = 732 /\ conns[c].reply = RejectMessage /\ conns[c].sent > 0
    /\ \E c \in 1..Len(conns) : conns[c].port = 731 /\ conns[c].calls > 0

\* C21: the request identifiers of the connections accepted so far, those
\* turned away by the port policy included, differ from each other and
\* grow in the order the connections were accepted; the identifier of the
\* next connection is above all of them
C21_RequestIdsDistinctIncreasing ==
    /\ \A a, b \in 1..Len(conns) : a < b => conns[a].requestId < conns[b].requestId
    /\ \A a \in 1..Len(conns) : conns[a].requestId < nextRequestId

\* a connection turned away by the port policy has been followed by one
\* that was wired
C21_Witness ==
    /\ Len(conns) >= 2
    /\ conns[1].reply = RejectMessage
    /\ conns[2].tokenizer
    /\ conns[1].requestId # conns[2].requestId

\* an operand is partially read or an opcode has been read and its
\* line-feed has not
InCommand == Len(_partial) > 0 \/ _command # NoCommand

\* a stream of declared size has received fewer octets than declared
BoundedOutstanding ==
    \E i \in StreamIds :
        ~Unbounded(streams[i]) /\ Len(streams[i].bytes) < Declared(streams[i])

\* C22: when the input has ended, the end token has been pushed exactly if
\* no operand was partially read, no command was in progress and no
\* stream of declared size had octets outstanding; otherwise an error of
\* premature end has been raised and no end token pushed
C22_EndTokenOrPrematureEnd ==
    flushed =>
        /\ HasEof <=> ~InCommand /\ ~BoundedOutstanding
        /\ HasEof => error = "none"
        /\ ~HasEof => error \in {PrematureRequest, PrematureData}

\* the input has ended after all declared octets of a stream, before its
\* confirmation octet, and the end token has been pushed
C22_Witness ==
    /\ flushed
    /\ HasEof
    /\ \E i \in StreamIds :
          /\ ~Unbounded(streams[i])
          /\ Len(streams[i].bytes) = Declared(streams[i])
          /\ streams[i].confirmAt = 0

\* the maximal non-empty runs of octets that are no separators
RECURSIVE Runs(_, _)
Runs(octets, run) ==
    IF octets = <<>> THEN (IF run = <<>> THEN <<>> ELSE <<run>>)
    ELSE IF Head(octets) \in {TAB, VT, FF, SPACE}
         THEN (IF run = <<>> THEN <<>> ELSE <<run>>) \o Runs(Tail(octets), <<>>)
         ELSE Runs(Tail(octets), Append(run, Head(octets)))

CommandIds == {k \in TokenIds : tokens[k].type \in {"command", "subcommand"}}

\* the position in the input of the first octet of the command of token k:
\* behind the line-feed of the command before it or behind the
\* confirmation octet of the data before it
CommandStart(k) ==
    IF k = 1 THEN 1
    ELSE IF tokens[k - 1].type = "data"
         THEN streams[tokens[k - 1].stream].confirmAt + 1
         ELSE tokens[k - 1].at + 1

\* C23: the opcode of a command token is the first octet of its command
\* whatever its value, its operands are the maximal non-empty runs of
\* octets without separator between the opcode and the first line-feed
\* behind it, in order, none of them is empty, and when no command is in
\* progress no operand is kept
C23_OpcodeAndOperands ==
    /\ \A k \in CommandIds :
          LET b == CommandStart(k)
              e == tokens[k].at
          IN /\ b < e
             /\ tokens[k].command = input[b]
             /\ input[e] = LF
             /\ \A j \in (b + 1)..(e - 1) : input[j] # LF
             /\ tokens[k].operands = Runs(SubSeq(input, b + 1, e - 1), <<>>)
             /\ \A o \in 1..Len(tokens[k].operands) : tokens[k].operands[o] # <<>>
    /\ _command = NoCommand => _operands = <<>> /\ _partial = <<>>

\* a command whose opcode is a separator has been pushed with two operands
C23_Witness ==
    \E k \in CommandIds :
        /\ IsSeparator(tokens[k].command)
        /\ Len(tokens[k].operands) = 2

\* the loop of _transform over the whole input as one chunk, from the
\* fields the constructor leaves
Whole ==
    Loop([command |-> NoCommand, operands |-> <<>>, partial |-> <<>>,
          dataBytes |-> 0, data |-> NoData, finished |-> FALSE,
          processSubCommands |-> FALSE, tokens |-> <<>>,
          streams |-> <<>>, read |-> 0, cb |-> "ok"], input, 0)

\* the tokens pushed by _transform: all but the end token
Pushed == SelectSeq(tokens, LAMBDA tok : tok.type # "eof")

\* C24: whatever the chunks the input has arrived in, the fields of the
\* tokenizer, the tokens pushed, the octets and the events of every
\* stream and the error raised are those the whole input gives when it
\* arrives as one chunk; the end of the input acts on these fields only
C24_ChunkingIrrelevant ==
    LET w == Whole
    IN /\ Pushed = w.tokens
       /\ _command = w.command
       /\ _operands = w.operands
       /\ _partial = w.partial
       /\ _dataBytes = w.dataBytes
       /\ finished = w.finished
       /\ processSubCommands = w.processSubCommands
       /\ nread = w.read
       /\ Len(streams) = Len(w.streams)
       /\ \A i \in StreamIds :
             /\ streams[i].bytes = w.streams[i].bytes
             /\ streams[i].expectConfirmation = w.streams[i].expectConfirmation
             /\ streams[i].confirmAt = w.streams[i].confirmAt
       /\ ~flushed =>
             /\ _data = w.data
             /\ error = (IF w.cb = "ok" THEN "none" ELSE w.cb)
             /\ streams = (IF w.cb = "ok" THEN w.streams
                           ELSE ForwardError(w.streams, w.data, w.cb))

\* a data file of two octets and its confirmation octet have arrived in
\* chunks of at most two octets, so in more than one chunk
C24_Witness ==
    /\ Len(input) = units
    /\ error = "none"
    /\ \E i \in StreamIds :
          /\ Len(streams[i].bytes) = 2
          /\ streams[i].confirmAt # 0

\* the size operand as the tokenizer tests it
AcceptedSize(operand) == IsSizeOperand(ToAscii(operand))

\* the streams that have not been ended
OpenStreams == {i \in StreamIds : ~Ended(streams[i])}

\* a data token follows exactly the subcommands 0x02 and 0x03 whose first
\* operand is a size, at once; at most one stream is open, and a command
\* token behind a data token was pushed after the stream of the data token
\* had been ended by its confirmation octet
DataTokenStructure(IsSize(_)) ==
    /\ \A k \in TokenIds :
          tokens[k].type = "data" =>
              /\ k - 1 \in DataCommands
              /\ tokens[k - 1].operands # <<>>
              /\ IsSize(tokens[k - 1].operands[1])
    /\ \A k \in DataCommands :
          tokens[k].operands # <<>> /\ IsSize(tokens[k].operands[1]) =>
              k < Len(tokens) /\ tokens[k + 1].type = "data"
    /\ Cardinality(OpenStreams) <= 1
    /\ \A k \in CommandIds :
          \A i \in StreamIds :
              DataTokenOf(i) < k =>
                  /\ Ended(streams[i])
                  /\ streams[i].confirmAt # 0
                  /\ streams[i].confirmAt < tokens[k].at

\* C25: a data token is pushed if and only if the token before it is a
\* subcommand 0x02 or 0x03 whose size operand is a string of decimal
\* digits; at most one stream is open at any time, and a stream has been
\* ended before the next command token is pushed
C25_DataTokenIffValidSize == DataTokenStructure(OnlyDigits)

\* the same with the size operand as the tokenizer tests it
DataTokenIffAcceptedSize == DataTokenStructure(AcceptedSize)

\* C26: the latch of subcommands and the latch of "no further input" are
\* never both set, neither is ever cleared, and an assignment of
\* handleSubCommands made when metEndOfCommand is set leaves
\* handleSubCommands unset
C26_LatchesExclusive ==
    /\ [](~(processSubCommands /\ finished))
    /\ [][/\ processSubCommands => processSubCommands'
          /\ finished => finished'
          /\ finished => ~processSubCommands']_vars

\* handleSubCommands has been assigned after metEndOfCommand was set and
\* is unset
C26_Witness ==
    /\ finished
    /\ ~processSubCommands
    /\ \E a \in 1..Len(assigned) : assigned[a]

\* C27: when an error about the size operand of a subcommand 0x02 or 0x03
\* has been raised, the subcommand is the last token pushed, pushed at its
\* line-feed; when an error about extra data has been raised, the single
\* top-level command before the extra octets is the one token pushed; in
\* both cases the token was pushed no later than the error was raised
C27_CommandBeforeItsError ==
    /\ error \in {MissingSize, InvalidSize} =>
          /\ tokens # <<>>
          /\ Len(tokens) \in DataCommands
          /\ tokens[Len(tokens)].at = nread
          /\ input[nread] = LF
          /\ error = MissingSize <=> tokens[Len(tokens)].operands = <<>>
          /\ error = InvalidSize =>
                ~IsSizeOperand(ToAscii(tokens[Len(tokens)].operands[1]))
    /\ error = ExtraData =>
          /\ Len(tokens) = 1
          /\ tokens[1].type = "command"
          /\ tokens[1].command # 2
          /\ tokens[1].at = nread
          /\ input[nread] = LF
          /\ Len(input) > nread

\* a subcommand with a size operand that is no number has been pushed and
\* the error about its size has been raised
C27_Witness ==
    /\ error = InvalidSize
    /\ tokens[Len(tokens)].type = "subcommand"
    /\ tokens[Len(tokens)].operands # <<>>
====
